---- MODULE Spec2Model ----
(***************************************************************************)
(* Model of statbotics_frc_betting_app.js: the valuation core              *)
(* (computeTeamValue, computeAllianceValue, suggestOverUnder) and the      *)
(* request handlers around the in-memory bet ledger.                       *)
(*                                                                         *)
(* JavaScript numbers are modelled as records [k, n, d]:                   *)
(*   k = "fin"   the rational n/d in lowest terms, d > 0                   *)
(*   k = "inf"   +Infinity (n = 1) or -Infinity (n = -1)                   *)
(*   k = "nan"   NaN                                                       *)
(*   k = "undef" the value undefined (an absent field)                     *)
(* Finite arithmetic is exact (no binary rounding error); the special      *)
(* values follow IEEE 754 as JavaScript exposes them.                      *)
(***************************************************************************)
EXTENDS Integers, Sequences, FiniteSets, TLC

VARIABLES team, valuation,
          redTeams, blueTeams, prediction,
          bets, response

vars == <<team, valuation, redTeams, blueTeams, prediction, bets, response>>

teamVars == <<team, valuation>>
coreVars == <<redTeams, blueTeams, prediction>>
serverVars == <<bets, response>>

(***************************************************************************)
(* JavaScript number semantics                                             *)
(***************************************************************************)
Abs(x) == IF x < 0 THEN -x ELSE x

Sgn(x) == IF x < 0 THEN -1 ELSE IF x > 0 THEN 1 ELSE 0

RECURSIVE Gcd(_, _)
Gcd(a, b) == IF b = 0 THEN a ELSE Gcd(b, a % b)

NaN == [k |-> "nan", n |-> 0, d |-> 0]

undefined == [k |-> "undef", n |-> 0, d |-> 0]

Infinity == [k |-> "inf", n |-> 1, d |-> 0]

SignedInf(s) == [k |-> "inf", n |-> s, d |-> 0]

\* The finite number n/d (d # 0), in lowest terms with a positive denominator.
Fin(n, d) ==
  LET g == Gcd(Abs(n), Abs(d))
      s == IF d < 0 THEN -1 ELSE 1
  IN  [k |-> "fin", n |-> s * (n \div g), d |-> s * (d \div g)]

Zero == Fin(0, 1)

One == Fin(1, 1)

IsFinite(x) == x.k = "fin"

IsNaN(x) == x.k \in {"nan", "undef"}

\* Sign of a number that is not NaN.
SignOf(x) == Sgn(x.n)

\* a/b < c/d for b, d > 0, by continued-fraction descent (no products).
RECURSIVE FracLess(_, _, _, _)
FracLess(a, b, c, d) ==
  LET q1 == a \div b
      q2 == c \div d
      r1 == a - q1 * b
      r2 == c - q2 * d
  IN  IF q1 # q2 THEN q1 < q2
      ELSE IF r2 = 0 THEN FALSE
      ELSE IF r1 = 0 THEN TRUE
      ELSE FracLess(d, r2, b, r1)

\* x < y; false when either side is NaN.
Lt(x, y) ==
  IF IsNaN(x) \/ IsNaN(y) THEN FALSE
  ELSE IF x.k = "inf" THEN x.n = -1 /\ ~(y.k = "inf" /\ y.n = -1)
  ELSE IF y.k = "inf" THEN y.n = 1
  ELSE FracLess(x.n, x.d, y.n, y.d)

\* x === y on numbers; false when either side is NaN.
NumEq(x, y) == ~IsNaN(x) /\ ~IsNaN(y) /\ x = y

Ge(x, y) == Lt(y, x) \/ NumEq(x, y)

Le(x, y) == Ge(y, x)

Gt(x, y) == Lt(y, x)

\* x + y
Add(x, y) ==
  IF IsNaN(x) \/ IsNaN(y) THEN NaN
  ELSE IF x.k = "inf" THEN (IF y.k = "inf" /\ y.n # x.n THEN NaN ELSE x)
  ELSE IF y.k = "inf" THEN y
  ELSE LET g == Gcd(x.d, y.d)
       IN  Fin(x.n * (y.d \div g) + y.n * (x.d \div g), (x.d \div g) * y.d)

Neg(x) == IF IsNaN(x) THEN NaN ELSE [x EXCEPT !.n = -x.n]

\* x - y
Sub(x, y) == Add(x, Neg(y))

\* x * y
Mul(x, y) ==
  IF IsNaN(x) \/ IsNaN(y) THEN NaN
  ELSE IF x.k = "inf" \/ y.k = "inf"
       THEN (IF SignOf(x) * SignOf(y) = 0 THEN NaN
             ELSE SignedInf(SignOf(x) * SignOf(y)))
  ELSE LET g1 == Gcd(Abs(x.n), y.d)
           g2 == Gcd(Abs(y.n), x.d)
       IN  Fin((x.n \div g1) * (y.n \div g2), (x.d \div g2) * (y.d \div g1))

\* x / y; a zero divisor is +0 (the only zero the program divides by is an
\* exact cancellation, which IEEE 754 rounds to +0).
Div(x, y) ==
  IF IsNaN(x) \/ IsNaN(y) THEN NaN
  ELSE IF y.k = "inf" THEN (IF x.k = "inf" THEN NaN ELSE Zero)
  ELSE IF y.n = 0 THEN (IF SignOf(x) = 0 THEN NaN ELSE SignedInf(SignOf(x)))
  ELSE IF x.k = "inf" THEN SignedInf(SignOf(x) * SignOf(y))
  ELSE Mul(x, Fin(y.d, y.n))

\* Math.max(x, y)
MathMax(x, y) ==
  IF IsNaN(x) \/ IsNaN(y) THEN NaN
  ELSE IF Lt(x, y) THEN y ELSE x

\* Math.round(x): the nearest integer, ties towards +Infinity.
MathRound(x) ==
  IF IsNaN(x) THEN NaN
  ELSE IF x.k = "inf" THEN x
  ELSE Fin((2 * x.n + x.d) \div (2 * x.d), 1)

\* Truthiness of a number or undefined: 0, NaN and undefined are falsy.
Truthy(x) == ~IsNaN(x) /\ ~(x.k = "fin" /\ x.n = 0)

\* x || y
OrElse(x, y) == IF Truthy(x) THEN x ELSE y

(***************************************************************************)
(* CONFIG                                                                  *)
(***************************************************************************)
RANK_MULTIPLIERS ==
  [r \in 1..8 |->
     CASE r = 1 -> Fin(110, 100)
       [] r = 2 -> Fin(108, 100)
       [] r = 3 -> Fin(106, 100)
       [] r = 4 -> Fin(104, 100)
       [] r = 5 -> Fin(102, 100)
       [] r = 6 -> Fin(101, 100)
       [] r = 7 -> Fin(1005, 1000)
       [] r = 8 -> Fin(1001, 1000)]

EPS == Fin(1, 1000)

SCALE_EPA == Fin(10, 1)

MIN_TEAM_VALUE == Fin(1, 1)

(***************************************************************************)
(* CORE ALGORITHM                                                          *)
(***************************************************************************)
\* RANK_MULTIPLIERS[rank]: undefined unless rank is one of the keys 1..8.
RankLookup(rank) ==
  IF rank.k = "fin" /\ rank.d = 1 /\ rank.n \in DOMAIN RANK_MULTIPLIERS
  THEN RANK_MULTIPLIERS[rank.n]
  ELSE undefined

getRankMultiplier(rank) == OrElse(RankLookup(rank), One)

EpaFactorOf(epa) == MathMax(Fin(1, 100), Div(epa, SCALE_EPA))

\* Mutant: the win probability used directly instead of inverted.
WinFactorNotInverted(win_prob) == Add(win_prob, EPS)

WinFactorOf(win_prob) == Div(One, Add(win_prob, EPS))

\* Mutant: the floor applied as a ceiling (Math.min for Math.max).
ClampValueAsMin(rawValue) ==
  IF IsNaN(rawValue) THEN NaN
  ELSE IF Lt(rawValue, MIN_TEAM_VALUE) THEN rawValue ELSE MIN_TEAM_VALUE

ClampValue(rawValue) == MathMax(MIN_TEAM_VALUE, rawValue)

computeTeamValue(t) ==
  LET epaFactor == EpaFactorOf(t.epa)
      rankMul == getRankMultiplier(t.rank)
      winFactor == WinFactorOf(t.win_prob)
      rawValue == Mul(Mul(epaFactor, rankMul), winFactor)
      value == ClampValue(rawValue)
  IN  [rawValue |-> rawValue,
       value |-> value,
       components |-> [epaFactor |-> epaFactor, rankMul |-> rankMul,
                       winFactor |-> winFactor]]

\* teams.reduce((s, t) => s + f(t), 0)
RECURSIVE SumOver(_, _, _)
SumOver(seq, i, acc) ==
  IF i > Len(seq) THEN acc ELSE SumOver(seq, i + 1, Add(acc, seq[i]))

\* Mutant: the alliance sums the unclamped rawValue of its teams.
computeAllianceValueRaw(teamObjs) ==
  LET computed == [i \in 1..Len(teamObjs) |-> computeTeamValue(teamObjs[i])]
      values == [i \in 1..Len(teamObjs) |-> computed[i].rawValue]
      epas == [i \in 1..Len(teamObjs) |-> OrElse(teamObjs[i].epa, Zero)]
  IN  [teams |-> [i \in 1..Len(teamObjs) |->
                    [team |-> teamObjs[i], computed |-> computed[i]]],
       allianceValue |-> SumOver(values, 1, Zero),
       allianceEPA |-> SumOver(epas, 1, Zero)]

computeAllianceValue(teamObjs) ==
  LET computed == [i \in 1..Len(teamObjs) |-> computeTeamValue(teamObjs[i])]
      values == [i \in 1..Len(teamObjs) |-> computed[i].value]
      epas == [i \in 1..Len(teamObjs) |-> OrElse(teamObjs[i].epa, Zero)]
  IN  [teams |-> [i \in 1..Len(teamObjs) |->
                    [team |-> teamObjs[i], computed |-> computed[i]]],
       allianceValue |-> SumOver(values, 1, Zero),
       allianceEPA |-> SumOver(epas, 1, Zero)]

\* Math.round(x * 10) / 10
Round1(x) == Div(MathRound(Mul(x, Fin(10, 1))), Fin(10, 1))

\* Math.round(x * 100) / 100
Round2(x) == Div(MathRound(Mul(x, Fin(100, 1))), Fin(100, 1))

BaseLineOf(redAlliance, blueAlliance) ==
  Round1(Div(Add(redAlliance.allianceEPA, blueAlliance.allianceEPA), Fin(2, 1)))

TotalValueOf(redAlliance, blueAlliance) ==
  Add(redAlliance.allianceValue, blueAlliance.allianceValue)

\* allianceValue / (totalValue || 1)
ShareOf(allianceValue, totalValue) == Div(allianceValue, OrElse(totalValue, One))

\* (share - 0.5) * 0.2 * baseLine
DeltaOf(share, baseLine) ==
  Mul(Mul(Sub(share, Fin(1, 2)), Fin(2, 10)), baseLine)

AvgValueOf(redAlliance, blueAlliance) ==
  OrElse(Div(Add(redAlliance.allianceValue, blueAlliance.allianceValue),
             Fin(2, 1)), One)

\* Math.max(1.01, 1 + (1 - (value/avgValue)) * 0.5)
PayoutOf(allianceValue, avgValue) ==
  MathMax(Fin(101, 100),
          Add(One, Mul(Sub(One, Div(allianceValue, avgValue)), Fin(1, 2))))

suggestOverUnder(redAlliance, blueAlliance) ==
  LET baseLine == BaseLineOf(redAlliance, blueAlliance)
      totalValue == TotalValueOf(redAlliance, blueAlliance)
      redShare == ShareOf(redAlliance.allianceValue, totalValue)
      blueShare == ShareOf(blueAlliance.allianceValue, totalValue)
      redDelta == DeltaOf(redShare, baseLine)
      blueDelta == DeltaOf(blueShare, baseLine)
      redLine == Round1(Add(baseLine, redDelta))
      blueLine == Round1(Add(baseLine, blueDelta))
      matchLine == Round1(Div(Add(redLine, blueLine), Fin(2, 1)))
      avgValue == AvgValueOf(redAlliance, blueAlliance)
      redPayout == PayoutOf(redAlliance.allianceValue, avgValue)
      bluePayout == PayoutOf(blueAlliance.allianceValue, avgValue)
  IN  [baseLine |-> baseLine,
       matchLine |-> matchLine,
       perAlliance |->
         [red |-> [line |-> redLine,
                   allianceValue |-> redAlliance.allianceValue,
                   payoutMultiplier |-> Round2(redPayout)],
          blue |-> [line |-> blueLine,
                    allianceValue |-> blueAlliance.allianceValue,
                    payoutMultiplier |-> Round2(bluePayout)]]]

(***************************************************************************)
(* Team inputs: every rank of the table, ranks outside it, and absent      *)
(* fields; EPA negative, zero, below the factor floor and positive; win    *)
(* probability inside and outside [0, 1].                                  *)
(***************************************************************************)
RankInputs == {undefined} \cup {Fin(r, 1) : r \in 0..9}

EpaInputs ==
  {undefined, Fin(-10, 1), Zero, Fin(5, 100), Fin(10, 1), Fin(385, 10)}

WinProbInputs ==
  {undefined, Fin(-1, 2), Fin(-1, 1000), Zero, Fin(43, 100), Fin(78, 100),
   One, Fin(3, 2)}

TeamInputs ==
  {[rank |-> r, epa |-> e, win_prob |-> p] :
     r \in RankInputs, e \in EpaInputs, p \in WinProbInputs}

\* Two teams that differ at most in win_prob.
TeamPairs ==
  {<<t, [t EXCEPT !.win_prob = p]>> : t \in TeamInputs, p \in WinProbInputs}

IsNumericTeam(t) ==
  /\ t.rank.k = "fin"
  /\ t.epa.k = "fin"
  /\ t.win_prob.k = "fin"

(***************************************************************************)
(* Specification of computeTeamValue as a pure function                    *)
(***************************************************************************)
InitIdle ==
  /\ team = <<>>
  /\ valuation = <<>>
  /\ redTeams = <<>>
  /\ blueTeams = <<>>
  /\ prediction = <<>>
  /\ bets = <<>>
  /\ response = <<>>

InitTeam ==
  /\ team \in TeamPairs
  /\ valuation = <<>>
  /\ redTeams = <<>>
  /\ blueTeams = <<>>
  /\ prediction = <<>>
  /\ bets = <<>>
  /\ response = <<>>

\* teams.map(t => computeTeamValue(t)) over the two teams drawn.
ValuateTeams ==
  /\ valuation = <<>>
  /\ valuation' = [i \in 1..Len(team) |-> computeTeamValue(team[i])]
  /\ UNCHANGED <<team, coreVars, serverVars>>

NextTeam == ValuateTeams

SpecTeam == InitTeam /\ [][NextTeam]_vars

(***************************************************************************)
(* Specification of the predict pipeline (computeAllianceValue on each     *)
(* side, then suggestOverUnder) as a pure function of the two alliances.   *)
(***************************************************************************)
MaxTeams == 2

\* value 1.1: a table rank, win_prob above 1
TeamA == [rank |-> Fin(1, 1), epa |-> Fin(20, 1), win_prob |-> Fin(1999, 1000)]

\* value 1000: an unknown rank, win_prob 0
TeamB == [rank |-> Fin(9, 1), epa |-> Fin(10, 1), win_prob |-> Zero]

\* value clamped to 1: negative EPA
TeamC == [rank |-> Fin(5, 1), epa |-> Fin(-10, 1), win_prob |-> Fin(499, 1000)]

\* win_prob = -EPS
TeamD == [rank |-> Fin(2, 1), epa |-> Zero, win_prob |-> Fin(-1, 1000)]

\* epa absent
TeamE == [rank |-> Fin(3, 1), epa |-> undefined, win_prob |-> Fin(499, 1000)]

\* rawValue exactly 1
TeamG == [rank |-> Zero, epa |-> Fin(10, 1), win_prob |-> Fin(999, 1000)]

CoreTeams == {TeamA, TeamB, TeamC, TeamD, TeamE, TeamG}

AllianceInputs == UNION {[1..n -> CoreTeams] : n \in 0..MaxTeams}

InitCore ==
  /\ redTeams \in AllianceInputs
  /\ blueTeams \in AllianceInputs
  /\ prediction = <<>>
  /\ team = <<>>
  /\ valuation = <<>>
  /\ bets = <<>>
  /\ response = <<>>

\* The body of the /predict handler after its shape check.
Predict ==
  /\ prediction = <<>>
  /\ LET red == computeAllianceValue(redTeams)
         blue == computeAllianceValue(blueTeams)
     IN  prediction' = <<[red |-> red, blue |-> blue,
                          suggestion |-> suggestOverUnder(red, blue)]>>
  /\ UNCHANGED <<redTeams, blueTeams, teamVars, serverVars>>

NextCore == Predict

SpecCore == InitCore /\ [][NextCore]_vars

(***************************************************************************)
(* API: the request handlers and the in-memory bets store.  Handlers are   *)
(* synchronous callbacks of a single-threaded event loop, so each runs to  *)
(* completion before the next starts: one action per request.  A response *)
(* records the route, the status, the number of items returned and the     *)
(* bets it carries.                                                        *)
(***************************************************************************)
MaxBets == 2

DefaultSimN == 10

Absent == "<absent>"

\* !s for a string field: absent and the empty string are falsy.
FalsyStr(s) == s \in {Absent, ""}

UserInputs == {Absent, "", "alice"}

MatchIdInputs == {Absent, "qm1"}

AllianceSideInputs == {Absent, "red"}

AmountInputs == {undefined, Zero, Fin(5, 1)}

BetTypeInputs == {Absent, "over"}

LineInputs == {undefined, Fin(785, 10)}

\* new Date().toISOString()
TimeInputs == {"t1", "t2"}

BetBodies ==
  [user : UserInputs, match_id : MatchIdInputs, alliance : AllianceSideInputs,
   amount : AmountInputs, type : BetTypeInputs, line : LineInputs]

\* alliances.red / alliances.blue of a /predict body: absent, an array, or a
\* value without a map method.
AllianceShapes == {"absent", "array", "notArray"}

\* n of a /simulate body; -1 stands for absent.
SimNInputs == {-1, 0, 1, 2}

Reply(route, status, count, body) ==
  <<[route |-> route, status |-> status, count |-> count, body |-> body]>>

MissingFields(b) ==
  \/ FalsyStr(b.user)
  \/ FalsyStr(b.match_id)
  \/ FalsyStr(b.alliance)
  \/ ~Truthy(b.amount)
  \/ FalsyStr(b.type)

\* Mutant: a zero-based id (bets.length without the + 1).
NextBetIdZeroBased(ledger) == Len(ledger)

\* const id = bets.length + 1
NextBetId(ledger) == Len(ledger) + 1

MakeBet(ledger, b, now) ==
  [id |-> NextBetId(ledger), user |-> b.user, match_id |-> b.match_id,
   alliance |-> b.alliance, amount |-> b.amount, type |-> b.type,
   line |-> b.line, time |-> now]

\* bets.push(bet)
PushBet(ledger, bet) == Append(ledger, bet)

Init == InitIdle

\* GET /health
Health ==
  /\ response' = Reply("/health", 200, 0, <<>>)
  /\ UNCHANGED <<bets, teamVars, coreVars>>

\* POST /predict
PredictReq ==
  \E red \in AllianceShapes, blue \in AllianceShapes :
    /\ response' =
         IF red = "absent" \/ blue = "absent"
         THEN Reply("/predict", 400, 0, <<>>)
         ELSE IF red = "notArray" \/ blue = "notArray"
         THEN Reply("/predict", 500, 0, <<>>)
         ELSE Reply("/predict", 200, 1, <<>>)
    /\ UNCHANGED <<bets, teamVars, coreVars>>

\* POST /bet
BetReq ==
  \E b \in BetBodies, now \in TimeInputs :
    IF MissingFields(b)
    THEN /\ response' = Reply("/bet", 400, 0, <<>>)
         /\ UNCHANGED <<bets, teamVars, coreVars>>
    ELSE /\ Len(bets) < MaxBets
         /\ LET bet == MakeBet(bets, b, now)
            IN  /\ bets' = PushBet(bets, bet)
                /\ response' = Reply("/bet", 200, 1, <<bet>>)
         /\ UNCHANGED <<teamVars, coreVars>>

\* GET /bets
BetsReq ==
  /\ response' = Reply("/bets", 200, Len(bets), bets)
  /\ UNCHANGED <<bets, teamVars, coreVars>>

\* parseInt(req.body.n || 10), then the number of loop iterations
SimCount(n) == IF n = -1 \/ n = 0 THEN DefaultSimN ELSE n

\* POST /simulate
SimulateReq ==
  \E n \in SimNInputs :
    /\ response' = Reply("/simulate", 200, SimCount(n), <<>>)
    /\ UNCHANGED <<bets, teamVars, coreVars>>

Next ==
  \/ Health
  \/ PredictReq
  \/ BetReq
  \/ BetsReq
  \/ SimulateReq

Spec == Init /\ [][Next]_vars

(***************************************************************************)
(* Properties                                                              *)
(***************************************************************************)
Valued == valuation # <<>>

Predicted == prediction # <<>>

NumAbs(x) == IF Lt(x, Zero) THEN Neg(x) ELSE x

InUnitInterval(p) == IsFinite(p) /\ Ge(p, Zero) /\ Le(p, One)

HasAbsentField(t) ==
  t.rank = undefined \/ t.epa = undefined \/ t.win_prob = undefined

AllNumeric(teams) == \A i \in 1..Len(teams) : IsNumericTeam(teams[i])

NumericAlliances == AllNumeric(redTeams) /\ AllNumeric(blueTeams)

RedOut == prediction[1].suggestion.perAlliance.red

BlueOut == prediction[1].suggestion.perAlliance.blue

BaseLineOut == prediction[1].suggestion.baseLine

TotalValueOut == TotalValueOf(prediction[1].red, prediction[1].blue)

RedShareOut == ShareOf(prediction[1].red.allianceValue, TotalValueOut)

BlueShareOut == ShareOf(prediction[1].blue.allianceValue, TotalValueOut)

MinPayout == Fin(101, 100)

\* C1: for every team with numeric rank, epa and win_prob, the value returned
\* by computeTeamValue is at least 1.0, and it equals rawValue whenever
\* rawValue is at least 1.0.
C1_ValueAtLeastFloor ==
  Valued =>
    \A i \in 1..Len(team) :
      IsNumericTeam(team[i]) =>
        /\ Ge(valuation[i].value, One)
        /\ Ge(valuation[i].rawValue, One) =>
             valuation[i].value = valuation[i].rawValue

\* C1 witness: a negative-EPA team of an unknown rank whose rawValue is below
\* the floor and is clamped to 1, next to the same team at win_prob 0, whose
\* rawValue is above the floor and is returned unchanged.
C1_Witness ==
  /\ Valued
  /\ IsNumericTeam(team[1]) /\ IsNumericTeam(team[2])
  /\ Lt(team[1].epa, Zero)
  /\ RankLookup(team[1].rank) = undefined
  /\ Lt(valuation[1].rawValue, One)
  /\ valuation[1].value = One
  /\ team[2].win_prob = Zero
  /\ Gt(valuation[2].rawValue, One)
  /\ valuation[2].value = valuation[2].rawValue

\* C4 (as claimed): for every team with numeric rank, epa and win_prob, every
\* number computeTeamValue returns is finite.
C4_AllFinite ==
  Valued =>
    \A i \in 1..Len(team) :
      IsNumericTeam(team[i]) =>
        /\ IsFinite(valuation[i].rawValue)
        /\ IsFinite(valuation[i].value)
        /\ IsFinite(valuation[i].components.winFactor)

\* C5 (as claimed): a team with an absent rank, epa or win_prob still gets a
\* defined numeric value of at least 1.0.
C5_AbsentFieldsDefault ==
  Valued =>
    \A i \in 1..Len(team) :
      HasAbsentField(team[i]) => Ge(valuation[i].value, One)

\* C6: with rank and epa fixed, for win probabilities p1 < p2 in [0, 1] the
\* value at p1 is at least the value at p2.
C6_DecreasingInWinProb ==
  Valued =>
    \A i \in 1..Len(team), j \in 1..Len(team) :
      ( /\ team[i].rank = team[j].rank
        /\ team[i].epa = team[j].epa
        /\ IsFinite(team[i].epa)
        /\ InUnitInterval(team[i].win_prob)
        /\ InUnitInterval(team[j].win_prob)
        /\ Lt(team[i].win_prob, team[j].win_prob) )
      => Ge(valuation[i].value, valuation[j].value)

\* C6 witness: two valuations of one team at win probabilities p1 < p2 in
\* [0, 1] where the value at p1 is strictly larger.
C6_Witness ==
  /\ Valued
  /\ team[1].rank = team[2].rank
  /\ team[1].epa = team[2].epa
  /\ InUnitInterval(team[1].win_prob)
  /\ InUnitInterval(team[2].win_prob)
  /\ Lt(team[1].win_prob, team[2].win_prob)
  /\ Gt(valuation[1].value, valuation[2].value)

\* C2 (as claimed): for every pair of alliances of numeric teams, both
\* returned payoutMultiplier values are at least 1.01.
C2_PayoutAtLeastMin ==
  (Predicted /\ NumericAlliances) =>
    /\ Ge(RedOut.payoutMultiplier, MinPayout)
    /\ Ge(BlueOut.payoutMultiplier, MinPayout)

\* C3 (as claimed): for every pair of alliances of numeric teams with equal
\* allianceValue, both lines equal baseLine and both payoutMultiplier values
\* equal 1.01.
C3_EqualValuesEqualLines ==
  ( /\ Predicted
    /\ NumericAlliances
    /\ NumEq(RedOut.allianceValue, BlueOut.allianceValue) )
  => /\ NumEq(RedOut.line, BaseLineOut)
     /\ NumEq(BlueOut.line, BaseLineOut)
     /\ NumEq(RedOut.payoutMultiplier, MinPayout)
     /\ NumEq(BlueOut.payoutMultiplier, MinPayout)

\* C7: computeAllianceValue of the empty sequence returns allianceValue 0 and
\* allianceEPA 0; of a non-empty sequence of numeric teams it returns an
\* allianceValue above 0 and at least the number of teams; and for numeric
\* teams the total value is falsy (the zero-total guard applies) only when
\* both alliances are empty.
C7_EmptyZeroElsePositive ==
  Predicted =>
    /\ \A side \in {<<redTeams, prediction[1].red>>,
                    <<blueTeams, prediction[1].blue>>} :
         /\ side[1] = <<>> =>
              /\ side[2].allianceValue = Zero
              /\ side[2].allianceEPA = Zero
         /\ (side[1] # <<>> /\ AllNumeric(side[1])) =>
              /\ Gt(side[2].allianceValue, Zero)
              /\ Ge(side[2].allianceValue, Fin(Len(side[1]), 1))
    /\ NumericAlliances =>
         (~Truthy(TotalValueOut) <=> (redTeams = <<>> /\ blueTeams = <<>>))

\* C7 witness: the empty red alliance against a non-empty blue alliance of
\* numeric teams, one of them clamped at the floor; the total is not zero.
C7_Witness ==
  /\ Predicted
  /\ redTeams = <<>>
  /\ prediction[1].red.allianceValue = Zero
  /\ blueTeams # <<>>
  /\ AllNumeric(blueTeams)
  /\ \E i \in 1..Len(blueTeams) :
       Lt(prediction[1].blue.teams[i].computed.rawValue, One)
  /\ Truthy(TotalValueOut)

\* C8 (as claimed): for alliances of numeric teams with total value above 0,
\* the two shares sum to 1 and each line is within 10% of |baseLine| of
\* baseLine before rounding, within 10% of |baseLine| plus 0.05 after.
C8_LineWithinTenPercent ==
  (Predicted /\ NumericAlliances /\ Gt(TotalValueOut, Zero)) =>
    /\ NumEq(Add(RedShareOut, BlueShareOut), One)
    /\ \A share \in {RedShareOut, BlueShareOut} :
         Le(NumAbs(DeltaOf(share, BaseLineOut)),
            Mul(Fin(1, 10), NumAbs(BaseLineOut)))
    /\ \A line \in {RedOut.line, BlueOut.line} :
         Le(NumAbs(Sub(line, BaseLineOut)),
            Add(Mul(Fin(1, 10), NumAbs(BaseLineOut)), Fin(5, 100)))

\* C10 (as claimed): for alliances of numeric teams with total value above 0,
\* redDelta is the negation of blueDelta and matchLine is within 0.1 of
\* baseLine.
C10_MatchLineNearBaseLine ==
  (Predicted /\ NumericAlliances /\ Gt(TotalValueOut, Zero)) =>
    /\ NumEq(DeltaOf(RedShareOut, BaseLineOut),
             Neg(DeltaOf(BlueShareOut, BaseLineOut)))
    /\ Le(NumAbs(Sub(prediction[1].suggestion.matchLine, BaseLineOut)),
          Fin(1, 10))

ConsecutiveIds(ledger) == \A k \in 1..Len(ledger) : ledger[k].id = k

BetAccepted(reply) ==
  reply # <<>> /\ reply[1].route = "/bet" /\ reply[1].status = 200

LedgerStep ==
  /\ ConsecutiveIds(bets)
  /\ ConsecutiveIds(bets')
  /\ Len(bets') >= Len(bets)
  /\ \A k \in 1..Len(bets) : bets'[k] = bets[k]
  /\ BetAccepted(response') => bets' = Append(bets, response'[1].body[1])
  /\ ~BetAccepted(response') => bets' = bets

\* C9: across every request the ledger only grows by appending the accepted
\* bet, whose id is its position (ids consecutive from 1); existing entries
\* stay as they are, and a rejected /bet and every /health, /bets, /predict
\* and /simulate request leave the ledger unchanged.
C9_LedgerAppendOnly == [][LedgerStep]_vars

\* C9 witness: a /bet request rejected for missing fields after the ledger
\* has taken MaxBets accepted bets, the last carrying id MaxBets.
C9_Witness ==
  /\ Len(bets) = MaxBets
  /\ MaxBets >= 2
  /\ bets[MaxBets].id = MaxBets
  /\ response # <<>>
  /\ response[1].route = "/bet"
  /\ response[1].status = 400

====
